---- MODULE Spec2Model ----
(***************************************************************************)
(* Frame loop of the Vulkan renderer (src/src/vulkan.c): the CPU side      *)
(* (VulkanRenderer_BeginDraw / VulkanRenderer_EndDraw / OnResize driven by *)
(* one calling thread) and the GPU side (the graphics queue executing the  *)
(* submitted command buffers), synchronised by the per-slot fences.        *)
(* Spec / FairSpec start after a successful VulkanRenderer_Init; InitSpec  *)
(* is VulkanRenderer_Init itself, step by step with every call that can    *)
(* fail, followed by VulkanRenderer_Destroy.  DrawSpec follows EndDraw     *)
(* call by call, with the semaphores and the swapchain images; SizeSpec    *)
(* follows the byte counts of the pixel and staging buffers;               *)
(* SwapchainSpec follows the choices CreateSwapchain makes from what the   *)
(* surface reports.                                                        *)
(***************************************************************************)
EXTENDS Integers, Sequences, FiniteSets, TLC

\* ---------------------------------------------------------------- bounds
NumColors == 2        \* distinct frame contents the producer can write
MaxTextures == 3      \* texture (re)creations explored
swapchain_image_count == 3   \* vk.swapchain_image_count, chosen by the driver
MaxGpus == 2          \* GPUs vkEnumeratePhysicalDevices can report
MaxFamilies == 2      \* queue families of one GPU
MaxNameLen == 2       \* words in a GPU's deviceName
MaxCodeSize == 8      \* bytes in a shader file
MaxDrawTextures == 2  \* texture (re)creations explored call by call
MaxDim == 32768       \* largest width and height handed to BeginDraw
MaxImages == 3        \* largest minImageCount a surface reports
MaxFormats == 2       \* surface formats the driver lists

\* ------------------------------------------------------ program constants
MAX_FRAMES_IN_FLIGHT == 2

Slots == 0 .. (MAX_FRAMES_IN_FLIGHT - 1)

\* pixel contents: Garbage is uninitialised memory, Colors what a producer writes
Null == -1
Garbage == 0
Colors == 1 .. NumColors
Contents == {Garbage} \cup Colors

\* logical resolutions requested through BeginDraw(width, height)
Sizes == {<<256, 224>>, <<256, 448>>}

\* VkResult values of vkAcquireNextImageKHR / vkQueuePresentKHR
VK_SUCCESS == "VK_SUCCESS"
VK_SUBOPTIMAL_KHR == "VK_SUBOPTIMAL_KHR"
VK_ERROR_OUT_OF_DATE_KHR == "VK_ERROR_OUT_OF_DATE_KHR"

\* how well the swapchain still matches the surface
SurfaceStates == {"optimal", "suboptimal", "out_of_date"}

VARIABLES
  pc,                 \* where the calling thread is: idle, or inside EndDraw
  current_frame,      \* vk.current_frame
  in_flight_fences,   \* vk.in_flight_fences[s]: TRUE = signaled
  gpu_queue,          \* command buffers submitted and not yet completed
  pixel_buffer,       \* vk.pixel_buffer: Null, or the content the producer sees
  staging_buffer,     \* content of the mapped staging buffer
  texture_content,    \* content of the texture image on the GPU
  texture_image,      \* vk.texture_image: 0 = VK_NULL_HANDLE, else handle id
  texture_width,      \* vk.texture_width
  texture_height,     \* vk.texture_height
  swapchain,          \* vk.swapchain: generation of the swapchain object
  surface,            \* state of the swapchain with respect to the surface
  held_images,        \* images acquired and neither presented nor released
  \* ---- observations of the run, never read by the program
  last_end_draw,      \* how the most recent EndDraw call returned
  stale_gen,          \* swapchain generation that last reported out-of-date
  present_gen,        \* swapchain generation whose present was not VK_SUCCESS
  resize_gen,         \* swapchain generation current at the last OnResize
  last_slot,          \* slot of the last presented frame
  prev_size,          \* <<width, height>> of the previous BeginDraw call
  size_changes,       \* BeginDraw calls whose size differed from the previous
  textures_created,   \* calls of CreateTextureResources
  \* ---- the Vulkan objects behind the texture
  tex,                \* state of each texture handle held in vk
  tex_live,           \* per kind, texture objects created and not destroyed
  \* ---- window and swapchain geometry
  window_size,        \* current size of the window's drawable area
  swapchain_extent,   \* vk.swapchain_extent
  \* ---- VulkanRenderer_Init
  init_pc,            \* not_started, running, ready, failed, destroyed
  init_step,          \* index in InitSteps of the step Init is at
  vkh,                \* state of each single handle held in vk
  vka,                \* the handle arrays held in vk, <<>> = NULL pointer
  device_count,       \* device_count of vkEnumeratePhysicalDevices
  device_name,        \* device_props.deviceName of devices[0]
  devices,            \* queue families the driver reports for each GPU
  physical_device,    \* vk.physical_device: 0, or index into devices
  graphics_queue_family,  \* vk.graphics_queue_family
  vert_code,          \* bytecode loaded for the vertex shader
  frag_code,          \* bytecode loaded for the fragment shader
  shader_calls,       \* bytecode handed to vkCreateShaderModule
  step_failed,        \* a call made by Init has reported a failure
  \* ---- semaphores, swapchain images and image layout
  image_available_semaphores,  \* per slot: Null, or the image whose acquire
                               \* signals the semaphore
  render_finished_semaphores,  \* per slot: TRUE = signaled
  swapchain_images,   \* per image: free, acquired by EndDraw, queued to present
  image_index,        \* image_index of the EndDraw call in progress
  present_queue,      \* presents queued by vkQueuePresentKHR and not yet shown
  texture_layout,     \* layout of the image vk.texture_image names
  \* ---- byte counts
  pitch,              \* *pitch as BeginDraw last stored it
  pixel_buffer_size,  \* bytes of the block vk.pixel_buffer points to
  buffer_size,        \* bytes of the buffer vk.staging_buffer names
  memcpy_size,        \* byte count of the last memcpy of EndDraw
  \* ---- locals of CreateSwapchain and CreateGraphicsPipeline
  capabilities,       \* minImageCount, maxImageCount the surface reports
  formats,            \* the surface formats the driver lists
  create_info,        \* the VkSwapchainCreateInfoKHR of CreateSwapchain
  shader_modules      \* vert_shader, frag_shader: null, live or destroyed

prog == <<pc, current_frame, in_flight_fences, gpu_queue, pixel_buffer,
          staging_buffer, texture_content, texture_image, texture_width,
          texture_height, swapchain, surface, held_images>>
obs == <<last_end_draw, stale_gen, present_gen, resize_gen,
         last_slot, prev_size, size_changes, textures_created>>
texobj == <<tex, tex_live>>
window == <<window_size, swapchain_extent>>
boot == <<init_pc, init_step, vkh, vka, device_count, device_name, devices,
          physical_device, graphics_queue_family, vert_code, frag_code, shader_calls,
          step_failed>>
sem == <<image_available_semaphores, render_finished_semaphores,
         swapchain_images, image_index, present_queue>>
drawsync == <<sem, texture_layout>>
bytes == <<pitch, pixel_buffer_size, buffer_size, memcpy_size>>
setup == <<capabilities, formats, create_info, shader_modules>>
vars == <<prog, obs, texobj, window, boot, drawsync, bytes, setup>>

NoSize == <<0, 0>>

\* ------------------------------------------------------------ vk handles
\* a handle field of vk is VK_NULL_HANDLE, names a live object, still names
\* an object that was destroyed, or (array slots from malloc) was never written
HandleStates == {"null", "live", "dangling", "uninit"}

\* the objects created for the texture, and the position of the call that
\* creates each of them within CreateTextureResources
TexKinds == {"image", "memory", "view", "sampler", "pool", "staging",
             "staging_memory"}
TexStep == [k \in TexKinds |->
              CASE k = "image" -> 1
                [] k = "memory" -> 2
                [] k = "view" -> 3
                [] k = "sampler" -> 4
                [] k = "pool" -> 5
                [] k = "staging" -> 7
                [] k = "staging_memory" -> 8]
\* 0 = every call succeeds, n = the n-th call fails (6 = vkAllocateDescriptorSets)
TexFailures == 0 .. 8
ViewFails == 3
\* every object is created and the vkQueueSubmit of the layout transition,
\* whose result is dropped, fails: CreateTextureResources still returns true
TransitionFails == 9

\* the single handles and the handle arrays that VulkanRenderer_Init fills
ScalarHandles == {"instance", "surface", "device", "swapchain", "render_pass",
                  "descriptor_set_layout", "pipeline_layout",
                  "graphics_pipeline", "command_pool", "vertex_buffer",
                  "vertex_buffer_memory", "index_buffer",
                  "index_buffer_memory"}
ArrayHandles == {"swapchain_image_views", "framebuffers",
                 "image_available_semaphores", "render_finished_semaphores",
                 "in_flight_fences"}
ArrayLen(a) == IF a \in {"swapchain_image_views", "framebuffers"}
                 THEN swapchain_image_count ELSE MAX_FRAMES_IN_FLIGHT
NoHandles == [h \in ScalarHandles |-> "null"]
NoArrays == [a \in ArrayHandles |-> <<>>]
NoTexture == [k \in TexKinds |-> "null"]

\* sizes the window's drawable area can take
WindowSizes == {<<1280, 720>>, <<1920, 1080>>}

\* the steps of VulkanRenderer_Init, in the order of the code
InitSteps == <<"extensions", "instance", "surface", "enumerate",
               "swiftshader", "queue_family", "device", "swapchain",
               "render_pass", "descriptor_set_layout", "graphics_pipeline",
               "framebuffers", "command_pool", "vertex_buffer",
               "command_buffers", "sync_objects">>

\* the images of the swapchain, and nothing acquired / signaled / queued
ImageIds == 0 .. (swapchain_image_count - 1)
NoSemaphores == [s \in Slots |-> Null]
NoSignals == [s \in Slots |-> FALSE]
AllFree == [i \in ImageIds |-> "free"]

\* nothing asked of the surface yet, no swapchain requested, no shader module
NoCapabilities == [minImageCount |-> 0, maxImageCount |-> 0]
NoRequest == [minImageCount |-> 0, imageFormat |-> "UNDEFINED",
              imageColorSpace |-> "UNDEFINED"]
NoShaders == [vert_shader |-> "null", frag_shader |-> "null"]

\* VkImageLayout of the texture image
VK_IMAGE_LAYOUT_UNDEFINED == "UNDEFINED"
VK_IMAGE_LAYOUT_SHADER_READ_ONLY_OPTIMAL == "SHADER_READ_ONLY_OPTIMAL"
VK_IMAGE_LAYOUT_TRANSFER_DST_OPTIMAL == "TRANSFER_DST_OPTIMAL"

\* SPIR-V bytecode as CreateShaderModule sees it: whether the file could be
\* read, its size in bytes, and its first 32-bit word
SPIRV_MAGIC == 119734787
ValidCode == [loaded |-> TRUE, size |-> 4, word |-> SPIRV_MAGIC]

\* state after a successful VulkanRenderer_Init: CreateSyncObjects creates
\* both fences signaled, vk was zeroed, the swapchain is the first one
Init ==
  /\ pc = "idle"
  /\ current_frame = 0
  /\ in_flight_fences = [s \in Slots |-> TRUE]
  /\ gpu_queue = <<>>
  /\ pixel_buffer = Null
  /\ staging_buffer = Garbage
  /\ texture_content = Garbage
  /\ texture_image = 0
  /\ texture_width = 0
  /\ texture_height = 0
  /\ swapchain = 1
  /\ surface = "optimal"
  /\ held_images = 0
  /\ last_end_draw = "none"
  /\ stale_gen = 0
  /\ present_gen = 0
  /\ resize_gen = 0
  /\ last_slot = Null
  /\ prev_size = NoSize
  /\ size_changes = 0
  /\ textures_created = 0
  /\ tex = NoTexture
  /\ tex_live = [k \in TexKinds |-> 0]
  /\ window_size = <<1280, 720>>
  /\ swapchain_extent = <<1280, 720>>
  /\ init_pc = "ready"
  /\ init_step = Len(InitSteps) + 1
  /\ vkh = [h \in ScalarHandles |-> "live"]
  /\ vka = [a \in ArrayHandles |-> [i \in 1 .. ArrayLen(a) |-> "live"]]
  /\ device_count = 1
  /\ device_name = <<>>
  /\ devices = <<>>
  /\ physical_device = 1
  /\ graphics_queue_family = 0
  /\ vert_code = ValidCode
  /\ frag_code = ValidCode
  /\ shader_calls = {ValidCode}
  /\ step_failed = FALSE
  /\ image_available_semaphores = NoSemaphores
  /\ render_finished_semaphores = NoSignals
  /\ swapchain_images = AllFree
  /\ image_index = Null
  /\ present_queue = <<>>
  /\ texture_layout = VK_IMAGE_LAYOUT_UNDEFINED
  /\ pitch = 0
  /\ pixel_buffer_size = 0
  /\ buffer_size = 0
  /\ memcpy_size = 0
  /\ capabilities = NoCapabilities
  /\ formats = <<>>
  /\ create_info = NoRequest
  /\ shader_modules = NoShaders

\* a command buffer submitted for slot s has not completed
Pending(s) == \E i \in 1 .. Len(gpu_queue) : gpu_queue[i].slot = s

\* ------------------------------------------------------------- BeginDraw
\* the test that guards the recreation of the texture
NeedsRecreate_WidthOnly(width, height) ==
  pixel_buffer = Null \/ texture_width # width

NeedsRecreate(width, height) ==
  pixel_buffer = Null \/ texture_width # width \/ texture_height # height

\* vkDeviceWaitIdle returns once the queue has drained
DeviceWaitIdle_NoWait == TRUE

DeviceWaitIdle == gpu_queue = <<>>

\* the destroy block of BeginDraw: every texture handle is handed to its
\* vkDestroy / vkFree call and the field keeps its value
Destroyed(h) == IF h = "live" THEN "dangling" ELSE h

\* call number TexStep[k] of CreateTextureResources creates an object of kind k
TexCreated(k, fail_at) ==
  IF fail_at = ViewFails THEN k # "view"
                         ELSE fail_at = 0 \/ TexStep[k] < fail_at

\* CreateTextureResources: new image, memory, view, sampler, descriptor
\* pool/set and staging buffer, returning at the first failing call; a failed
\* CreateImageView only stores VK_NULL_HANDLE. The new image and buffer hold
\* no frame yet, and the last thing done is the transition of the new image
\* from UNDEFINED to SHADER_READ_ONLY_OPTIMAL. old is the state of the handle
\* fields on entry.
CreateTextureResources(width, height, old, fail_at) ==
  /\ textures_created' = textures_created + 1
  /\ texture_image' = IF fail_at = 1 THEN texture_image
                                     ELSE textures_created + 1
  /\ tex' = [k \in TexKinds |->
               IF TexCreated(k, fail_at) THEN "live"
               ELSE IF k = "view" /\ fail_at = ViewFails THEN "null"
               ELSE old[k]]
  /\ staging_buffer' = Garbage
  /\ texture_content' = Garbage
  /\ texture_layout' = IF fail_at = 0
                         THEN VK_IMAGE_LAYOUT_SHADER_READ_ONLY_OPTIMAL
                         ELSE VK_IMAGE_LAYOUT_UNDEFINED

\* if (vk.texture_image): the previous texture objects are destroyed
HasTexture == tex["image"] # "null"

\* the destroy block would hand an already destroyed handle to the driver
DestroysDangling == HasTexture /\ \E k \in TexKinds : tex[k] = "dangling"

VulkanRenderer_BeginDraw(width, height, fail_at) ==
  /\ pc = "idle"
  /\ init_pc = "ready"
  /\ IF NeedsRecreate(width, height)
       THEN /\ textures_created < MaxTextures
            /\ HasTexture => DeviceWaitIdle
            /\ texture_width' = width
            /\ texture_height' = height
            /\ pixel_buffer' = Garbage
            /\ CreateTextureResources(width, height,
                 IF HasTexture THEN [k \in TexKinds |-> Destroyed(tex[k])]
                               ELSE tex, fail_at)
            /\ tex_live' = [k \in TexKinds |->
                 tex_live[k]
                 - (IF HasTexture /\ tex[k] = "live" THEN 1 ELSE 0)
                 + (IF TexCreated(k, fail_at) THEN 1 ELSE 0)]
       ELSE /\ fail_at = 0
            /\ UNCHANGED <<texture_width, texture_height, pixel_buffer,
                           textures_created, texture_image, staging_buffer,
                           texture_content, texobj, texture_layout>>
  /\ prev_size' = <<width, height>>
  /\ size_changes' = IF prev_size # <<width, height>>
                       THEN size_changes + 1 ELSE size_changes
  /\ UNCHANGED <<pc, current_frame, in_flight_fences, gpu_queue, swapchain,
                 surface, held_images, last_end_draw,
                 stale_gen, present_gen, resize_gen, last_slot, window, boot, sem,
                 bytes, setup>>

\* handing a destroyed handle to vkDestroy* / vkFreeMemory is undefined: the
\* call may also bring the process down inside the driver
BeginDraw_Crash(width, height) ==
  /\ pc = "idle"
  /\ init_pc = "ready"
  /\ NeedsRecreate(width, height)
  /\ DeviceWaitIdle
  /\ DestroysDangling
  /\ pc' = "crashed"
  /\ UNCHANGED <<current_frame, in_flight_fences, gpu_queue, pixel_buffer,
                 staging_buffer, texture_content, texture_image,
                 texture_width, texture_height, swapchain, surface,
                 held_images, obs, texobj, window, boot, drawsync, bytes,
                 setup>>

\* the frame producer fills the buffer BeginDraw handed out
ProducerFill(c) ==
  /\ pc = "idle"
  /\ pixel_buffer # Null
  /\ pixel_buffer # c
  /\ pixel_buffer' = c
  /\ UNCHANGED <<pc, current_frame, in_flight_fences, gpu_queue,
                 staging_buffer, texture_content, texture_image,
                 texture_width, texture_height, swapchain, surface,
                 held_images, obs, texobj, window, boot, drawsync, bytes,
                 setup>>

\* --------------------------------------------------------------- EndDraw
\* what the driver returns for the swapchain in a given surface state
ResultFor(state) ==
  CASE state = "optimal" -> VK_SUCCESS
    [] state = "suboptimal" -> VK_SUBOPTIMAL_KHR
    [] state = "out_of_date" -> VK_ERROR_OUT_OF_DATE_KHR

\* an out-of-date swapchain stays out of date until it is recreated
SurfaceAfter(state) ==
  IF state = "out_of_date" THEN {"out_of_date"} ELSE SurfaceStates

\* vkWaitForFences on the fence of slot s has nothing left to wait for
FenceWaitOver_TimedOut(s) == TRUE

FenceWaitOver(s) == in_flight_fences[s]

NextFrame_Stay(frame) == frame

NextFrame(frame) == (frame + 1) % MAX_FRAMES_IN_FLIGHT

\* the texture, its descriptor set and the mapped staging buffer all exist
TextureReady == \A k \in TexKinds : tex[k] = "live"

\* the calling thread enters EndDraw and reaches vkWaitForFences
VulkanRenderer_EndDraw ==
  /\ pc = "idle"
  /\ init_pc = "ready"
  /\ TextureReady
  /\ pc' = "wait_fence"
  /\ UNCHANGED <<current_frame, in_flight_fences, gpu_queue, pixel_buffer,
                 staging_buffer, texture_content, texture_image,
                 texture_width, texture_height, swapchain, surface,
                 held_images, obs, texobj, window, boot, drawsync, bytes,
                 setup>>

\* vkWaitForFences(..., UINT64_MAX) returns once the fence is signaled
EndDraw_WaitForFences ==
  /\ pc = "wait_fence"
  /\ FenceWaitOver(current_frame)
  /\ pc' = "acquire"
  /\ UNCHANGED <<current_frame, in_flight_fences, gpu_queue, pixel_buffer,
                 staging_buffer, texture_content, texture_image,
                 texture_width, texture_height, swapchain, surface,
                 held_images, obs, texobj, window, boot, drawsync, bytes,
                 setup>>

\* acquire returned out-of-date or suboptimal: log and return
EndDraw_SkipFrame_ResetFirst(result) ==
  /\ pc' = "idle"
  /\ in_flight_fences' = [in_flight_fences EXCEPT ![current_frame] = FALSE]
  /\ held_images' = IF result = VK_SUBOPTIMAL_KHR
                      THEN held_images + 1 ELSE held_images
  /\ last_end_draw' = IF result = VK_ERROR_OUT_OF_DATE_KHR
                         THEN "dropped_out_of_date" ELSE "dropped_suboptimal"
  /\ stale_gen' = IF result = VK_ERROR_OUT_OF_DATE_KHR
                    THEN swapchain ELSE stale_gen
  /\ UNCHANGED <<current_frame, gpu_queue, pixel_buffer,
                 staging_buffer, texture_content, texture_image,
                 texture_width, texture_height, swapchain, surface,
                 present_gen, resize_gen, last_slot,
                 prev_size, size_changes, textures_created,
                 texobj, window, boot, drawsync, bytes, setup>>

EndDraw_SkipFrame(result) ==
  /\ pc' = "idle"
  /\ held_images' = IF result = VK_SUBOPTIMAL_KHR
                      THEN held_images + 1 ELSE held_images
  /\ last_end_draw' = IF result = VK_ERROR_OUT_OF_DATE_KHR
                         THEN "dropped_out_of_date" ELSE "dropped_suboptimal"
  /\ stale_gen' = IF result = VK_ERROR_OUT_OF_DATE_KHR
                    THEN swapchain ELSE stale_gen
  /\ UNCHANGED <<current_frame, in_flight_fences, gpu_queue, pixel_buffer,
                 staging_buffer, texture_content, texture_image,
                 texture_width, texture_height, swapchain, surface,
                 present_gen, resize_gen, last_slot,
                 prev_size, size_changes, textures_created,
                 texobj, window, boot, drawsync, bytes, setup>>

\* memcpy(vk.staging_buffer_mapped, vk.pixel_buffer, width * height * 4):
\* what the mapped staging buffer holds afterwards
StagingAfterMemcpy_NoCopy == staging_buffer

StagingAfterMemcpy == pixel_buffer

\* vkResetFences, memcpy into the staging buffer, record, vkQueueSubmit,
\* vkQueuePresentKHR, advance the slot.  submitted: vkQueueSubmit returned
\* VK_SUCCESS; now: the surface state by the time of the present
EndDraw_Render(submitted, now) ==
  /\ pc' = "idle"
  /\ in_flight_fences' = [in_flight_fences EXCEPT ![current_frame] = FALSE]
  /\ staging_buffer' = StagingAfterMemcpy
  /\ IF submitted
       THEN /\ gpu_queue' = Append(gpu_queue,
                 [slot |-> current_frame, written |-> pixel_buffer,
                  copied |-> FALSE])
            /\ surface' = now
            /\ present_gen' = IF ResultFor(now) # VK_SUCCESS
                                THEN swapchain ELSE present_gen
            /\ stale_gen' = IF ResultFor(now) = VK_ERROR_OUT_OF_DATE_KHR
                              THEN swapchain ELSE stale_gen
            /\ current_frame' = NextFrame(current_frame)
            /\ last_end_draw' = "presented"
            /\ last_slot' = current_frame
            /\ UNCHANGED held_images
       ELSE /\ now = surface
            /\ held_images' = held_images + 1
            /\ last_end_draw' = "submit_failed"
            /\ UNCHANGED <<gpu_queue, surface, present_gen, stale_gen,
                           current_frame, last_slot>>
  /\ UNCHANGED <<pixel_buffer, texture_content, texture_image, texture_width,
                 texture_height, swapchain, resize_gen,
                 prev_size, size_changes, textures_created,
                 texobj, window, boot, drawsync, bytes, setup>>

\* vkAcquireNextImageKHR(..., UINT64_MAX, ...) and everything after it
EndDraw_Acquire ==
  /\ pc = "acquire"
  /\ LET result == ResultFor(surface) IN
       \* an image is handed out only when the application does not hold all
       /\ result # VK_ERROR_OUT_OF_DATE_KHR
            => held_images < swapchain_image_count
       /\ IF result = VK_ERROR_OUT_OF_DATE_KHR \/ result = VK_SUBOPTIMAL_KHR
            THEN EndDraw_SkipFrame(result)
            ELSE \E submitted \in BOOLEAN : \E now \in SurfaceAfter(surface) :
                   EndDraw_Render(submitted, now)

\* ---------------------------------------------------------------- OnResize
\* the window changed size (the swapchain may or may not still match the
\* surface) and the windowing code calls OnResize, which only logs
VulkanRenderer_OnResize(state, size) ==
  /\ pc = "idle"
  /\ init_pc = "ready"
  /\ surface' = state
  /\ window_size' = size
  /\ resize_gen' = swapchain
  /\ UNCHANGED <<pc, current_frame, in_flight_fences, gpu_queue, pixel_buffer,
                 staging_buffer, texture_content, texture_image,
                 texture_width, texture_height, swapchain, held_images,
                 last_end_draw, stale_gen, present_gen,
                 last_slot, prev_size, size_changes,
                 textures_created, texobj, swapchain_extent, boot, drawsync,
                 bytes, setup>>

\* ----------------------------------------------------------------- Destroy
\* if (vk.device) vkDeviceWaitIdle(vk.device)
Destroy_DeviceWaitIdle_Skipped == TRUE

Destroy_DeviceWaitIdle == vkh["device"] # "null" => DeviceWaitIdle

\* Destroy hands to vkDestroy* / vkFree* every single and texture handle that
\* is not VK_NULL_HANDLE and every slot of every array whose pointer is not
\* NULL: one of them names no live object
Destroy_Invalid ==
  \/ \E k \in TexKinds : tex[k] \in {"dangling", "uninit"}
  \/ \E h \in ScalarHandles : vkh[h] \in {"dangling", "uninit"}
  \/ \E a \in ArrayHandles : \E i \in 1 .. Len(vka[a]) :
       vka[a][i] \in {"dangling", "uninit"}

\* the order in which Destroy hands the objects to their destroy / free calls
DestroyOrder ==
  <<"image_available_semaphores", "render_finished_semaphores",
    "in_flight_fences", "staging", "staging_memory", "pool", "sampler",
    "view", "image", "memory", "vertex_buffer", "vertex_buffer_memory",
    "index_buffer", "index_buffer_memory", "command_pool", "framebuffers",
    "graphics_pipeline", "pipeline_layout", "descriptor_set_layout",
    "render_pass", "swapchain_image_views", "swapchain", "device", "surface",
    "instance">>

\* the positions at which Destroy releases object h
DestroyPos(h) == {i \in 1 .. Len(DestroyOrder) : DestroyOrder[i] = h}

\* memset(&vk, 0, sizeof(vk)): a field of vk after Destroy
ZeroedByMemset_Skipped(field, zero) == field

ZeroedByMemset(field, zero) == zero

\* what a call of Destroy would hand to a vkDestroy* / vkFree* call
DestroyCalls ==
  {k \in TexKinds : tex[k] # "null"}
    \cup {h \in ScalarHandles : vkh[h] # "null"}
    \cup {a \in ArrayHandles : vka[a] # <<>>}

\* VulkanRenderer_Destroy: wait, destroy, free, memset(&vk, 0, sizeof(vk));
\* it can be called whatever Init returned, and again after itself
VulkanRenderer_Destroy ==
  /\ pc = "idle"
  /\ init_pc \in {"ready", "failed", "destroyed"}
  /\ Destroy_DeviceWaitIdle
  /\ init_pc' = "destroyed"
  /\ current_frame' = ZeroedByMemset(current_frame, 0)
  /\ in_flight_fences' = [s \in Slots |-> TRUE]
  /\ pixel_buffer' = Null
  /\ staging_buffer' = Garbage
  /\ texture_content' = Garbage
  /\ texture_image' = 0
  /\ texture_width' = ZeroedByMemset(texture_width, 0)
  /\ texture_height' = ZeroedByMemset(texture_height, 0)
  /\ swapchain' = 0
  /\ held_images' = 0
  /\ swapchain_extent' = NoSize
  /\ graphics_queue_family' = 0
  /\ tex' = ZeroedByMemset(tex, NoTexture)
  /\ tex_live' = [k \in TexKinds |->
                    IF tex[k] = "live" THEN tex_live[k] - 1 ELSE tex_live[k]]
  /\ vkh' = ZeroedByMemset(vkh, NoHandles)
  /\ vka' = ZeroedByMemset(vka, NoArrays)
  /\ physical_device' = 0
  /\ image_available_semaphores' = NoSemaphores
  /\ render_finished_semaphores' = NoSignals
  /\ swapchain_images' = AllFree
  /\ image_index' = Null
  /\ present_queue' = <<>>
  /\ texture_layout' = VK_IMAGE_LAYOUT_UNDEFINED
  /\ pixel_buffer_size' = 0
  /\ buffer_size' = 0
  /\ UNCHANGED <<pitch, memcpy_size, setup>>
  /\ UNCHANGED <<pc, gpu_queue, surface, obs, window_size, init_step,
                 device_count, device_name, devices, vert_code, frag_code,
                 shader_calls, step_failed>>

\* a destroy call on a handle that names no live object is undefined: the
\* call may also bring the process down inside the driver
Destroy_Crash ==
  /\ pc = "idle"
  /\ init_pc \in {"ready", "failed"}
  /\ Destroy_DeviceWaitIdle
  /\ Destroy_Invalid
  /\ pc' = "crashed"
  /\ UNCHANGED <<current_frame, in_flight_fences, gpu_queue, pixel_buffer,
                 staging_buffer, texture_content, texture_image,
                 texture_width, texture_height, swapchain, surface,
                 held_images, obs, texobj, window, boot, drawsync, bytes,
                 setup>>

\* --------------------------------------------------------------------- GPU
\* the graphics queue executes the oldest command buffer: first the barrier
\* to TRANSFER_DST_OPTIMAL and the buffer-to-image copy out of the staging
\* buffer ...
GpuCopy ==
  /\ gpu_queue # <<>>
  /\ ~gpu_queue[1].copied
  /\ texture_content' = staging_buffer
  /\ texture_layout' = VK_IMAGE_LAYOUT_TRANSFER_DST_OPTIMAL
  /\ gpu_queue' = [gpu_queue EXCEPT ![1].copied = TRUE]
  /\ UNCHANGED <<pc, current_frame, in_flight_fences, pixel_buffer,
                 staging_buffer, texture_image, texture_width, texture_height,
                 swapchain, surface, held_images, obs, texobj, window, boot, sem,
                 bytes, setup>>

\* ... then the barrier back to SHADER_READ_ONLY_OPTIMAL and the draw that
\* samples the texture; on completion the slot's fence is signaled
GpuFinish ==
  /\ gpu_queue # <<>>
  /\ gpu_queue[1].copied
  /\ in_flight_fences' = [in_flight_fences EXCEPT ![gpu_queue[1].slot] = TRUE]
  /\ gpu_queue' = Tail(gpu_queue)
  /\ texture_layout' = VK_IMAGE_LAYOUT_SHADER_READ_ONLY_OPTIMAL
  /\ UNCHANGED <<pc, current_frame, pixel_buffer, staging_buffer,
                 texture_content, texture_image, texture_width,
                 texture_height, swapchain, surface, held_images,
                 last_end_draw, stale_gen,
                 present_gen, resize_gen, last_slot, prev_size, size_changes,
                 textures_created, texobj, window, boot, sem, bytes, setup>>

\* ------------------------------------------- EndDraw, one call at a time
\* DrawSpec follows EndDraw call by call through vulkan.c, with the
\* semaphores, the swapchain images and the presentation engine, for every
\* order of BeginDraw and EndDraw calls.  The observations of the run that
\* the frame-level steps keep are not kept here.

\* the semaphore of slot frame that each call is given
AcquireSemaphore(frame) == frame
SubmitWaitSemaphore(frame) == frame
SubmitSignalSemaphore(frame) == frame
PresentWaitSemaphore(frame) == SubmitSignalSemaphore(frame)

\* the calling thread enters EndDraw, whatever BeginDraw has or has not done
EndDraw_Enter ==
  /\ pc = "idle"
  /\ init_pc = "ready"
  /\ pc' = "wait_fence"
  /\ UNCHANGED <<current_frame, in_flight_fences, gpu_queue, pixel_buffer,
                 staging_buffer, texture_content, texture_image,
                 texture_width, texture_height, swapchain, surface,
                 held_images, obs, texobj, window, boot, drawsync, bytes,
                 setup>>

\* vkAcquireNextImageKHR(..., UINT64_MAX, image_available_semaphores[frame]):
\* blocks until an image is free; out-of-date hands out none; a semaphore
\* that still has a signal pending afterwards stands for either image
EndDraw_AcquireNextImage ==
  /\ pc = "acquire"
  /\ LET result == ResultFor(surface)
         semaphore == AcquireSemaphore(current_frame)
     IN IF result = VK_ERROR_OUT_OF_DATE_KHR
          THEN /\ pc' = "idle"
               /\ UNCHANGED <<held_images, sem>>
          ELSE /\ \E image \in ImageIds :
                    /\ swapchain_images[image] = "free"
                    /\ swapchain_images' =
                         [swapchain_images EXCEPT ![image] = "acquired"]
                    /\ \E signaled \in {image,
                                        image_available_semaphores[semaphore]}
                                         \ {Null} :
                         image_available_semaphores' =
                           [image_available_semaphores
                              EXCEPT ![semaphore] = signaled]
                    /\ image_index' = IF result = VK_SUBOPTIMAL_KHR
                                        THEN Null ELSE image
               /\ held_images' = held_images + 1
               /\ pc' = IF result = VK_SUBOPTIMAL_KHR
                          THEN "idle" ELSE "reset_fence"
               /\ UNCHANGED <<render_finished_semaphores, present_queue>>
  /\ UNCHANGED <<current_frame, in_flight_fences, gpu_queue, pixel_buffer,
                 staging_buffer, texture_content, texture_image,
                 texture_width, texture_height, swapchain, surface, obs,
                 texobj, window, boot, texture_layout, bytes, setup>>

\* vkResetFences on the fence of the current slot
EndDraw_ResetFences ==
  /\ pc = "reset_fence"
  /\ in_flight_fences' = [in_flight_fences EXCEPT ![current_frame] = FALSE]
  /\ pc' = "upload"
  /\ UNCHANGED <<current_frame, gpu_queue, pixel_buffer,
                 staging_buffer, texture_content, texture_image,
                 texture_width, texture_height, swapchain, surface,
                 held_images, obs, texobj, window, boot, drawsync, bytes,
                 setup>>

\* memcpy(vk.staging_buffer_mapped, vk.pixel_buffer, width * height * 4);
\* before the first BeginDraw it copies 0 bytes
EndDraw_Memcpy ==
  /\ pc = "upload"
  /\ staging_buffer' = IF pixel_buffer = Null THEN staging_buffer
                                              ELSE StagingAfterMemcpy
  /\ pc' = "record"
  /\ UNCHANGED <<current_frame, in_flight_fences, gpu_queue, pixel_buffer,
                 texture_content, texture_image,
                 texture_width, texture_height, swapchain, surface,
                 held_images, obs, texobj, window, boot, drawsync, bytes,
                 setup>>

\* vkResetCommandBuffer ... vkEndCommandBuffer on the slot's command buffer
EndDraw_Record ==
  /\ pc = "record"
  /\ pc' = "submit"
  /\ UNCHANGED <<current_frame, in_flight_fences, gpu_queue, pixel_buffer,
                 staging_buffer, texture_content, texture_image,
                 texture_width, texture_height, swapchain, surface,
                 held_images, obs, texobj, window, boot, drawsync, bytes,
                 setup>>

\* vkQueueSubmit with the slot's fence; on failure EndDraw returns
EndDraw_QueueSubmit(submitted) ==
  /\ pc = "submit"
  /\ IF submitted
       THEN /\ gpu_queue' = Append(gpu_queue,
                 [slot |-> current_frame, written |-> pixel_buffer,
                  copied |-> FALSE, image |-> image_index,
                  wait |-> SubmitWaitSemaphore(current_frame),
                  signal |-> SubmitSignalSemaphore(current_frame)])
            /\ pc' = "present"
            /\ UNCHANGED image_index
       ELSE /\ pc' = "idle"
            /\ image_index' = Null
            /\ UNCHANGED gpu_queue
  /\ UNCHANGED <<current_frame, in_flight_fences, pixel_buffer,
                 staging_buffer, texture_content, texture_image,
                 texture_width, texture_height, swapchain, surface,
                 held_images, obs, texobj, window,
                 boot, image_available_semaphores, render_finished_semaphores,
                 swapchain_images, present_queue, texture_layout, bytes,
                 setup>>

\* vkQueuePresentKHR waiting on signal_semaphores; its result is dropped
EndDraw_QueuePresent(now) ==
  /\ pc = "present"
  /\ present_queue' = Append(present_queue,
       [image |-> image_index, wait |-> PresentWaitSemaphore(current_frame)])
  /\ swapchain_images' = [swapchain_images EXCEPT ![image_index] = "queued"]
  /\ held_images' = held_images - 1
  /\ surface' = now
  /\ pc' = "advance"
  /\ UNCHANGED <<current_frame, in_flight_fences, gpu_queue, pixel_buffer,
                 staging_buffer, texture_content, texture_image,
                 texture_width, texture_height, swapchain, obs,
                 texobj, window, boot,
                 image_available_semaphores, render_finished_semaphores,
                 image_index, texture_layout, bytes, setup>>

\* vk.current_frame = (vk.current_frame + 1) % MAX_FRAMES_IN_FLIGHT; return
EndDraw_Advance ==
  /\ pc = "advance"
  /\ current_frame' = NextFrame(current_frame)
  /\ image_index' = Null
  /\ pc' = "idle"
  /\ UNCHANGED <<in_flight_fences, gpu_queue, pixel_buffer,
                 staging_buffer, texture_content, texture_image,
                 texture_width, texture_height, swapchain, surface,
                 held_images, obs, texobj, window,
                 boot, image_available_semaphores, render_finished_semaphores,
                 swapchain_images, present_queue, texture_layout, bytes,
                 setup>>

\* a semaphore with a signal pending given to vkAcquireNextImageKHR, a memcpy
\* through a pointer that is not a mapping, commands on handles that name no
\* object: undefined, the call may also bring the process down
EndDraw_Crash ==
  /\ \/ /\ pc = "acquire"
        /\ ResultFor(surface) # VK_ERROR_OUT_OF_DATE_KHR
        /\ image_available_semaphores[AcquireSemaphore(current_frame)] # Null
     \/ /\ pc = "upload"
        /\ ~TextureReady
  /\ pc' = "crashed"
  /\ UNCHANGED <<current_frame, in_flight_fences, gpu_queue, pixel_buffer,
                 staging_buffer, texture_content, texture_image,
                 texture_width, texture_height, swapchain, surface,
                 held_images, obs, texobj, window, boot, drawsync, bytes,
                 setup>>

\* the draw of the oldest command buffer: the barrier back to
\* SHADER_READ_ONLY_OPTIMAL, then the render pass, whose colour output waits
\* for the wait semaphore; completion signals the signal semaphore and the fence
GpuDraw ==
  /\ gpu_queue # <<>>
  /\ gpu_queue[1].copied
  /\ image_available_semaphores[gpu_queue[1].wait] # Null
  /\ image_available_semaphores' =
       [image_available_semaphores EXCEPT ![gpu_queue[1].wait] = Null]
  /\ render_finished_semaphores' =
       [render_finished_semaphores EXCEPT ![gpu_queue[1].signal] = TRUE]
  /\ in_flight_fences' = [in_flight_fences EXCEPT ![gpu_queue[1].slot] = TRUE]
  /\ gpu_queue' = Tail(gpu_queue)
  /\ texture_layout' = VK_IMAGE_LAYOUT_SHADER_READ_ONLY_OPTIMAL
  /\ UNCHANGED <<pc, current_frame, pixel_buffer, staging_buffer,
                 texture_content, texture_image, texture_width,
                 texture_height, swapchain, surface, held_images, obs,
                 texobj, window, boot, swapchain_images, image_index,
                 present_queue, bytes, setup>>

\* the presentation engine shows the oldest queued image once the semaphore
\* the present waits on is signaled, and the image is free again
PresentationEngine ==
  /\ present_queue # <<>>
  /\ render_finished_semaphores[present_queue[1].wait]
  /\ render_finished_semaphores' =
       [render_finished_semaphores EXCEPT ![present_queue[1].wait] = FALSE]
  /\ swapchain_images' =
       [swapchain_images EXCEPT ![present_queue[1].image] = "free"]
  /\ present_queue' = Tail(present_queue)
  /\ UNCHANGED <<prog, obs, texobj, window, boot, image_available_semaphores,
                 image_index, texture_layout, bytes, setup>>

\* between two calls the window system changes how well the swapchain
\* matches the surface
SurfaceChanges(state) ==
  /\ pc = "idle"
  /\ state # surface
  /\ surface' = state
  /\ UNCHANGED <<pc, current_frame, in_flight_fences, gpu_queue, pixel_buffer,
                 staging_buffer, texture_content, texture_image,
                 texture_width, texture_height, swapchain, held_images, obs,
                 texobj, window, boot, drawsync, bytes, setup>>

DrawNext ==
  \/ \E size \in Sizes : \E fail_at \in TexFailures \cup {TransitionFails} :
       /\ textures_created < MaxDrawTextures
       /\ VulkanRenderer_BeginDraw(size[1], size[2], fail_at)
  \/ \E size \in Sizes : BeginDraw_Crash(size[1], size[2])
  \/ EndDraw_Enter
  \/ EndDraw_WaitForFences
  \/ EndDraw_AcquireNextImage
  \/ EndDraw_ResetFences
  \/ EndDraw_Memcpy
  \/ EndDraw_Record
  \/ \E submitted \in BOOLEAN : EndDraw_QueueSubmit(submitted)
  \/ \E now \in SurfaceAfter(surface) : EndDraw_QueuePresent(now)
  \/ EndDraw_Advance
  \/ EndDraw_Crash
  \/ \E state \in SurfaceAfter(surface) : SurfaceChanges(state)
  \/ GpuCopy
  \/ GpuDraw
  \/ PresentationEngine

DrawSpec == Init /\ [][DrawNext]_vars

\* ------------------------------------------------------------ byte counts
\* SizeSpec follows the byte counts that BeginDraw and EndDraw compute from
\* (width, height), for every size up to MaxDim; the texture objects are
\* followed by the specifications above.  MaxDim keeps width * height within
\* int, so the product that can leave int is the one by 4.
INT_MAX == 2147483647

\* widths and heights handed to BeginDraw
Dims == {1, 224, 256, 448, 512, 1024, 4096, 16384, 23171, MaxDim}

\* x * 4 in int for 0 <= x <= INT_MAX, as a two's complement build keeps it
TimesFour(x) ==
  LET low == x % 1073741824
  IN IF low >= 536870912 THEN 4 * (low - 1073741824) ELSE 4 * low

\* width * height * 4, an int expression at each of its three places:
\* malloc(width * height * 4), VkDeviceSize buffer_size = width * height * 4,
\* memcpy(..., vk.texture_width * vk.texture_height * 4)
TextureBytes(width, height) == TimesFour(width * height)

\* the product does not fit int: signed overflow
BytesOverflow(width, height) == width * height > INT_MAX \div 4

\* malloc(n) for an int n converted to size_t: a negative n asks for more
\* than the address space holds and malloc returns NULL
MallocSize(n) == IF n < 0 THEN 0 ELSE n

\* CreateBuffer for an int n converted to VkDeviceSize: a negative n is a
\* size no allocation satisfies, and no staging buffer is created
StagingSize(n) == IF n < 0 THEN 0 ELSE n

\* BeginDraw: on a new size the buffers are allocated anew; *pitch is stored
\* on every call
BeginDraw_Sizes(width, height) ==
  /\ pc = "idle"
  /\ init_pc = "ready"
  /\ IF NeedsRecreate(width, height)
       THEN /\ texture_width' = width
            /\ texture_height' = height
            /\ pixel_buffer' = IF TextureBytes(width, height) < 0
                                 THEN Null ELSE Garbage
            /\ pixel_buffer_size' = MallocSize(TextureBytes(width, height))
            /\ buffer_size' = StagingSize(TextureBytes(width, height))
       ELSE UNCHANGED <<texture_width, texture_height, pixel_buffer,
                       pixel_buffer_size, buffer_size>>
  /\ pitch' = width * 4
  /\ UNCHANGED <<pc, current_frame, in_flight_fences, gpu_queue,
                 staging_buffer, texture_content, texture_image, swapchain,
                 surface, held_images, obs, texobj, window, boot, drawsync,
                 memcpy_size, setup>>

\* signed overflow is undefined: a build that traps stops at the product
BeginDraw_Overflow(width, height) ==
  /\ pc = "idle"
  /\ init_pc = "ready"
  /\ NeedsRecreate(width, height)
  /\ BytesOverflow(width, height)
  /\ pc' = "crashed"
  /\ UNCHANGED <<current_frame, in_flight_fences, gpu_queue, pixel_buffer,
                 staging_buffer, texture_content, texture_image,
                 texture_width, texture_height, swapchain, surface,
                 held_images, obs, texobj, window, boot, drawsync, bytes,
                 setup>>

\* the memcpy of EndDraw; a negative count is that count converted to size_t
EndDraw_Copy ==
  /\ pc = "idle"
  /\ init_pc = "ready"
  /\ memcpy_size' = TextureBytes(texture_width, texture_height)
  /\ UNCHANGED <<prog, obs, texobj, window, boot, drawsync, pitch,
                 pixel_buffer_size, buffer_size, setup>>

\* a copy of more bytes than a buffer holds is undefined: the call may also
\* bring the process down
EndDraw_CopyCrash ==
  /\ pc = "idle"
  /\ init_pc = "ready"
  /\ LET n == TextureBytes(texture_width, texture_height)
     IN n < 0 \/ n > pixel_buffer_size \/ n > buffer_size
  /\ pc' = "crashed"
  /\ UNCHANGED <<current_frame, in_flight_fences, gpu_queue, pixel_buffer,
                 staging_buffer, texture_content, texture_image,
                 texture_width, texture_height, swapchain, surface,
                 held_images, obs, texobj, window, boot, drawsync, bytes,
                 setup>>

SizeNext ==
  \/ \E width \in Dims : \E height \in Dims : BeginDraw_Sizes(width, height)
  \/ \E width \in Dims : \E height \in Dims :
       BeginDraw_Overflow(width, height)
  \/ EndDraw_Copy
  \/ EndDraw_CopyCrash

SizeSpec == Init /\ [][SizeNext]_vars

\* ------------------------------------------------------ VulkanRenderer_Init
SeqsUpTo(S, n) == UNION {[1 .. m -> S] : m \in 0 .. n}

\* a queue family: does it have VK_QUEUE_GRAPHICS_BIT, can it present to the
\* surface
QueueFamilyKinds == {[graphics |-> TRUE, present |-> FALSE],
                     [graphics |-> FALSE, present |-> TRUE],
                     [graphics |-> TRUE, present |-> TRUE]}
FamilyLists == SeqsUpTo(QueueFamilyKinds, MaxFamilies)

\* deviceName as a sequence of words
DeviceNames == SeqsUpTo({"SwiftShader", "Adreno"}, MaxNameLen)
SwiftShader == <<"SwiftShader">>

\* shader files: unreadable, or any size with any leading word (for a file
\* shorter than a word, code[0] is whatever lies behind it)
NoCode == [loaded |-> FALSE, size |-> 0, word |-> 0]
ShaderCodes == {NoCode} \cup
  [loaded : {TRUE}, size : 0 .. MaxCodeSize, word : {SPIRV_MAGIC, 0}]

\* the value that stands for "no family found": it is no family index
UINT32_MAX == -1

StepName == IF init_step \in 1 .. Len(InitSteps)
              THEN InitSteps[init_step] ELSE "done"

\* strstr(hay, needle) != NULL
IsSubstring(needle, hay) ==
  \E i \in 0 .. (Len(hay) - Len(needle)) :
    \A j \in 1 .. Len(needle) : hay[i + j] = needle[j]

\* the test for the known-bad software rasterizer
IsKnownBad_PrefixOnly(name) ==
  /\ Len(name) >= Len(SwiftShader)
  /\ \A j \in 1 .. Len(SwiftShader) : name[j] = SwiftShader[j]

IsKnownBad(name) == IsSubstring(SwiftShader, name)

\* the loop over queue_families: index of the first family with the graphics
\* bit that can present, UINT32_MAX if there is none
FindQueueFamily(families) ==
  LET ok == {i \in 1 .. Len(families) :
               families[i].graphics /\ families[i].present}
  IN IF ok = {} THEN UINT32_MAX
     ELSE (CHOOSE i \in ok : \A j \in ok : i <= j) - 1

\* the checks CreateShaderModule makes before it calls the driver
ShaderAccepted_MagicOnly(code) == code.word = SPIRV_MAGIC

ShaderAccepted(code) ==
  /\ ~(code.size < 4 \/ code.word # SPIRV_MAGIC)
  /\ ~(code.size % 4 # 0)

\* LoadShaderFromAsset hands the file to vkCreateShaderModule
ReachesDriver(code) == code.loaded /\ ShaderAccepted(code)

\* number of calls that can fail within each step handled by Init_Create
StepCalls(step) ==
  CASE step = "extensions" -> 2
    [] step = "swapchain" -> 1 + swapchain_image_count
    [] step = "framebuffers" -> swapchain_image_count
    [] step = "vertex_buffer" -> 9
    [] step = "sync_objects" -> 3 * MAX_FRAMES_IN_FLIGHT
    [] OTHER -> 1

\* the step goes on although call f failed: CreateSwapchain does not look at
\* what CreateImageView returned, CreateVertexBuffer not at the result of
\* vkAllocateCommandBuffers / vkQueueSubmit
Unchecked(step, f) ==
  \/ step = "swapchain" /\ f > 1
  \/ step = "vertex_buffer" /\ f = 9

\* the single handles after the step, when its call f fails (0: none does)
StepHandles(step, f) ==
  LET made(h, from) == IF f = 0 \/ f > from THEN "live" ELSE vkh[h] IN
  CASE step \in {"instance", "surface", "device", "swapchain", "render_pass",
                 "descriptor_set_layout", "command_pool"} ->
         [vkh EXCEPT ![step] = made(step, 1)]
    [] step = "vertex_buffer" ->
         [vkh EXCEPT !["vertex_buffer"] = made("vertex_buffer", 3),
                     !["vertex_buffer_memory"] = made("vertex_buffer_memory", 4),
                     !["index_buffer"] = made("index_buffer", 7),
                     !["index_buffer_memory"] = made("index_buffer_memory", 8)]
    [] OTHER -> vkh

\* the handle arrays after the step: malloc leaves the slots unwritten, and
\* the loop returns at the first failure
StepArrays(step, f) ==
  LET sync(k) == [i \in 1 .. MAX_FRAMES_IN_FLIGHT |->
                    IF f = 0 \/ 3 * (i - 1) + k < f THEN "live" ELSE "uninit"]
  IN
  CASE step = "swapchain" /\ f # 1 ->
         [vka EXCEPT !["swapchain_image_views"] =
            [i \in 1 .. swapchain_image_count |->
               IF f = i + 1 THEN "null" ELSE "live"]]
    [] step = "framebuffers" ->
         [vka EXCEPT !["framebuffers"] =
            [i \in 1 .. swapchain_image_count |->
               IF f = 0 \/ i < f THEN "live" ELSE "uninit"]]
    [] step = "sync_objects" ->
         [vka EXCEPT !["image_available_semaphores"] = sync(1),
                     !["render_finished_semaphores"] = sync(2),
                     !["in_flight_fences"] = sync(3)]
    [] OTHER -> vka

\* Init goes on to the next step, or returns true after the last
Init_Advance ==
  /\ init_step' = init_step + 1
  /\ init_pc' = IF init_step = Len(InitSteps) THEN "ready" ELSE "running"

\* return false
Init_Fail ==
  /\ init_pc' = "failed"
  /\ init_step' = init_step

\* the steps that are a sequence of creation calls, each checked or not
Init_Create(f) ==
  /\ init_pc = "running"
  /\ StepName \in {"extensions", "instance", "surface", "device", "swapchain",
                   "render_pass", "descriptor_set_layout", "framebuffers",
                   "command_pool", "vertex_buffer", "command_buffers",
                   "sync_objects"}
  /\ f \in 0 .. StepCalls(StepName)
  /\ vkh' = StepHandles(StepName, f)
  /\ vka' = StepArrays(StepName, f)
  /\ step_failed' = (step_failed \/ f # 0)
  /\ IF f = 0 \/ Unchecked(StepName, f) THEN Init_Advance ELSE Init_Fail
  /\ swapchain' = IF StepName = "swapchain" /\ f # 1 THEN 1 ELSE swapchain
  /\ swapchain_extent' = IF StepName = "swapchain" THEN window_size
                                                   ELSE swapchain_extent
  /\ UNCHANGED <<pc, current_frame, in_flight_fences, gpu_queue, pixel_buffer,
                 staging_buffer, texture_content, texture_image,
                 texture_width, texture_height, surface, held_images, obs,
                 texobj, drawsync, bytes, window_size, device_count,
                 device_name, devices,
                 physical_device, graphics_queue_family, vert_code,
                 frag_code, shader_calls, setup>>

\* vkEnumeratePhysicalDevices: no GPU is a failure, else devices[0] is taken
\* and its properties are read
Init_Enumerate(count, name) ==
  /\ init_pc = "running"
  /\ StepName = "enumerate"
  /\ device_count' = count
  /\ IF count = 0
       THEN /\ name = <<>>
            /\ Init_Fail
            /\ step_failed' = TRUE
            /\ UNCHANGED <<physical_device, device_name>>
       ELSE /\ physical_device' = 1
            /\ device_name' = name
            /\ Init_Advance
            /\ UNCHANGED step_failed
  /\ UNCHANGED <<prog, obs, texobj, window, drawsync,
                 vkh, vka, devices,
                 graphics_queue_family, vert_code, frag_code, shader_calls,
                 bytes, setup>>

\* the name check on the selected GPU; device_props is not read again
Init_SwiftShader ==
  /\ init_pc = "running"
  /\ StepName = "swiftshader"
  /\ IF IsKnownBad(device_name)
       THEN /\ Init_Fail
            /\ step_failed' = TRUE
            /\ UNCHANGED device_name
       ELSE /\ Init_Advance
            /\ device_name' = <<>>
            /\ UNCHANGED step_failed
  /\ UNCHANGED <<prog, obs, texobj, window, drawsync,
                 vkh, vka, device_count, devices,
                 physical_device, graphics_queue_family, vert_code,
                 frag_code, shader_calls, bytes, setup>>

\* the queue family search on the selected GPU.  gpus: the queue families
\* the driver reports for each enumerated GPU, of which the code asks only
\* for those of the selected one
Init_QueueFamily ==
  /\ init_pc = "running"
  /\ StepName = "queue_family"
  /\ \E gpus \in [1 .. device_count -> FamilyLists] :
       /\ graphics_queue_family' = FindQueueFamily(gpus[physical_device])
       /\ IF graphics_queue_family' = UINT32_MAX
            THEN /\ Init_Fail
                 /\ step_failed' = TRUE
                 /\ devices' = gpus
            ELSE /\ Init_Advance
                 /\ devices' = <<>>
                 /\ UNCHANGED step_failed
  /\ UNCHANGED <<prog, obs, texobj, window, drawsync,
                 vkh, vka, device_count,
                 device_name, physical_device, vert_code, frag_code,
                 shader_calls, bytes, setup>>

\* a shader module of CreateGraphicsPipeline when the function returns.
\* created: LoadShaderFromAsset returned a module for it, other: it did for
\* the other shader.  The return after a missing module destroys the one that
\* exists, the returns after a failed vkCreatePipelineLayout (f = 3) and a
\* failed vkCreateGraphicsPipelines (f = 4) destroy nothing, the last return
\* comes after both vkDestroyShaderModule calls
ShaderAtReturn(created, other, f) ==
  IF ~created THEN "null"
  ELSE IF ~other THEN "destroyed"
  ELSE IF f \in {3, 4} THEN "live"
  ELSE "destroyed"

\* CreateGraphicsPipeline: both shader files are loaded and checked, then the
\* pipeline layout and the pipeline are created.  f: the driver call that
\* fails (1, 2: vkCreateShaderModule for the vertex / fragment shader,
\* 3: vkCreatePipelineLayout, 4: vkCreateGraphicsPipelines)
Init_Pipeline(vert, frag, f) ==
  /\ f = 1 => ReachesDriver(vert)
  /\ f = 2 => ReachesDriver(frag)
  /\ f \in {3, 4} => ReachesDriver(vert) /\ ReachesDriver(frag)
  /\ vert_code' = vert
  /\ frag_code' = frag
  /\ shader_calls' = shader_calls \cup {c \in {vert, frag} : ReachesDriver(c)}
  /\ LET vert_shader == ReachesDriver(vert) /\ f # 1
         frag_shader == ReachesDriver(frag) /\ f # 2
     IN IF ~vert_shader \/ ~frag_shader \/ f = 3
          THEN /\ Init_Fail
               /\ UNCHANGED vkh
          ELSE IF f = 4
          THEN /\ Init_Fail
               /\ vkh' = [vkh EXCEPT !["pipeline_layout"] = "live"]
          ELSE /\ Init_Advance
               /\ vkh' = [vkh EXCEPT !["pipeline_layout"] = "live",
                                     !["graphics_pipeline"] = "live"]
  /\ shader_modules' =
       [vert_shader |-> ShaderAtReturn(ReachesDriver(vert) /\ f # 1,
                                       ReachesDriver(frag) /\ f # 2, f),
        frag_shader |-> ShaderAtReturn(ReachesDriver(frag) /\ f # 2,
                                       ReachesDriver(vert) /\ f # 1, f)]
  /\ step_failed' = (step_failed \/ init_pc' = "failed")
  /\ UNCHANGED <<prog, obs, texobj, window, drawsync,
                 vka, device_count, device_name,
                 devices, physical_device, graphics_queue_family, bytes,
                 capabilities, formats, create_info>>

Init_GraphicsPipeline ==
  /\ init_pc = "running"
  /\ StepName = "graphics_pipeline"
  /\ \E vert \in ShaderCodes : \E frag \in ShaderCodes : \E f \in 0 .. 4 :
       Init_Pipeline(vert, frag, f)

\* VulkanRenderer_Init called again after Destroy: its locals start afresh,
\* vk is what Destroy left
Init_Enter ==
  /\ pc = "idle"
  /\ init_pc = "destroyed"
  /\ init_pc' = "running"
  /\ init_step' = 1
  /\ device_count' = 0
  /\ device_name' = <<>>
  /\ devices' = <<>>
  /\ vert_code' = NoCode
  /\ frag_code' = NoCode
  /\ shader_calls' = {}
  /\ step_failed' = FALSE
  /\ capabilities' = NoCapabilities
  /\ formats' = <<>>
  /\ create_info' = NoRequest
  /\ shader_modules' = NoShaders
  /\ UNCHANGED <<prog, obs, texobj, window, drawsync, bytes, vkh, vka,
                 physical_device, graphics_queue_family>>

\* state when VulkanRenderer_Init is entered: vk is all zero
BootInit ==
  /\ pc = "idle"
  /\ current_frame = 0
  /\ in_flight_fences = [s \in Slots |-> TRUE]
  /\ gpu_queue = <<>>
  /\ pixel_buffer = Null
  /\ staging_buffer = Garbage
  /\ texture_content = Garbage
  /\ texture_image = 0
  /\ texture_width = 0
  /\ texture_height = 0
  /\ swapchain = 0
  /\ surface = "optimal"
  /\ held_images = 0
  /\ last_end_draw = "none"
  /\ stale_gen = 0
  /\ present_gen = 0
  /\ resize_gen = 0
  /\ last_slot = Null
  /\ prev_size = NoSize
  /\ size_changes = 0
  /\ textures_created = 0
  /\ tex = NoTexture
  /\ tex_live = [k \in TexKinds |-> 0]
  /\ window_size = <<1280, 720>>
  /\ swapchain_extent = NoSize
  /\ init_pc = "running"
  /\ init_step = 1
  /\ vkh = NoHandles
  /\ vka = NoArrays
  /\ device_count = 0
  /\ device_name = <<>>
  /\ devices = <<>>
  /\ physical_device = 0
  /\ graphics_queue_family = 0
  /\ vert_code = NoCode
  /\ frag_code = NoCode
  /\ shader_calls = {}
  /\ step_failed = FALSE
  /\ image_available_semaphores = NoSemaphores
  /\ render_finished_semaphores = NoSignals
  /\ swapchain_images = AllFree
  /\ image_index = Null
  /\ present_queue = <<>>
  /\ texture_layout = VK_IMAGE_LAYOUT_UNDEFINED
  /\ pitch = 0
  /\ pixel_buffer_size = 0
  /\ buffer_size = 0
  /\ memcpy_size = 0
  /\ capabilities = NoCapabilities
  /\ formats = <<>>
  /\ create_info = NoRequest
  /\ shader_modules = NoShaders

InitNext ==
  \/ \E f \in 0 .. StepCalls(StepName) : Init_Create(f)
  \/ \E count \in 0 .. MaxGpus : \E name \in DeviceNames :
       Init_Enumerate(count, name)
  \/ Init_SwiftShader
  \/ Init_QueueFamily
  \/ Init_GraphicsPipeline
  \/ VulkanRenderer_Destroy
  \/ Destroy_Crash
  \/ Init_Enter

\* VulkanRenderer_Init from its first step, and Destroy after it returned
InitSpec == BootInit /\ [][InitNext]_vars

\* --------------------------------------------------------- CreateSwapchain
\* SwapchainSpec follows what CreateSwapchain asks of vkCreateSwapchainKHR,
\* for every answer of the surface up to MaxImages and MaxFormats.
VK_FORMAT_B8G8R8A8_SRGB == "B8G8R8A8_SRGB"
VK_COLOR_SPACE_SRGB_NONLINEAR_KHR == "SRGB_NONLINEAR_KHR"

\* VkSurfaceFormatKHR values a surface can offer
SurfaceFormats ==
  [format : {VK_FORMAT_B8G8R8A8_SRGB, "B8G8R8A8_UNORM", "R8G8B8A8_UNORM",
             "R5G6B5_UNORM_PACK16"},
   colorSpace : {VK_COLOR_SPACE_SRGB_NONLINEAR_KHR,
                 "DISPLAY_P3_NONLINEAR_EXT"}]

\* what vkGetPhysicalDeviceSurfaceFormatsKHR fills in: at least one format
FormatLists == UNION {[1 .. m -> SurfaceFormats] : m \in 1 .. MaxFormats}

\* what vkGetPhysicalDeviceSurfaceCapabilitiesKHR fills in: at least one
\* image, and maxImageCount either 0 (no limit) or not below minImageCount
CapabilityPairs ==
  {c \in [minImageCount : 1 .. MaxImages,
          maxImageCount : 0 .. (MaxImages + 1)] :
     c.maxImageCount = 0 \/ c.maxImageCount >= c.minImageCount}

\* the loop over formats: the first entry that is B8G8R8A8_SRGB in the sRGB
\* nonlinear colour space, formats[0] when there is none
ChooseSurfaceFormat_FormatOnly(fmts) ==
  LET match == {i \in 1 .. Len(fmts) :
                  fmts[i].format = VK_FORMAT_B8G8R8A8_SRGB}
  IN IF match = {} THEN fmts[1]
     ELSE fmts[CHOOSE i \in match : \A j \in match : i <= j]

ChooseSurfaceFormat(fmts) ==
  LET match == {i \in 1 .. Len(fmts) :
                  /\ fmts[i].format = VK_FORMAT_B8G8R8A8_SRGB
                  /\ fmts[i].colorSpace = VK_COLOR_SPACE_SRGB_NONLINEAR_KHR}
  IN IF match = {} THEN fmts[1]
     ELSE fmts[CHOOSE i \in match : \A j \in match : i <= j]

\* image_count: minImageCount + 1, cut down to maxImageCount when that is
\* not 0; the counts drawn stay far below UINT32_MAX
ImageCount_AlwaysClamp(caps) ==
  LET image_count == caps.minImageCount + 1
  IN IF image_count > caps.maxImageCount
       THEN caps.maxImageCount ELSE image_count

ImageCount(caps) ==
  LET image_count == caps.minImageCount + 1
  IN IF caps.maxImageCount > 0 /\ image_count > caps.maxImageCount
       THEN caps.maxImageCount ELSE image_count

\* the two queries at the head of CreateSwapchain
CreateSwapchain_Query(caps, fmts) ==
  /\ formats = <<>>
  /\ capabilities' = caps
  /\ formats' = fmts
  /\ UNCHANGED <<prog, obs, texobj, window, boot, drawsync, bytes,
                 create_info, shader_modules>>

\* create_info as it is handed to vkCreateSwapchainKHR
CreateSwapchain_Request ==
  /\ formats # <<>>
  /\ create_info = NoRequest
  /\ create_info' =
       [minImageCount |-> ImageCount(capabilities),
        imageFormat |-> ChooseSurfaceFormat(formats).format,
        imageColorSpace |-> ChooseSurfaceFormat(formats).colorSpace]
  /\ UNCHANGED <<prog, obs, texobj, window, boot, drawsync, bytes,
                 capabilities, formats, shader_modules>>

SwapchainNext ==
  \/ \E caps \in CapabilityPairs : \E fmts \in FormatLists :
       CreateSwapchain_Query(caps, fmts)
  \/ CreateSwapchain_Request

SwapchainSpec == BootInit /\ [][SwapchainNext]_vars

Next ==
  \/ \E size \in Sizes : \E fail_at \in TexFailures :
       VulkanRenderer_BeginDraw(size[1], size[2], fail_at)
  \/ \E size \in Sizes : BeginDraw_Crash(size[1], size[2])
  \/ \E c \in Colors : ProducerFill(c)
  \/ VulkanRenderer_EndDraw
  \/ EndDraw_WaitForFences
  \/ EndDraw_Acquire
  \/ \E state \in SurfaceAfter(surface) : \E size \in WindowSizes :
       VulkanRenderer_OnResize(state, size)
  \/ VulkanRenderer_Destroy
  \/ Destroy_Crash
  \/ GpuCopy
  \/ GpuFinish

Spec == Init /\ [][Next]_vars

\* the GPU completes what was submitted, and the caller keeps calling EndDraw
\* and is not suspended inside it once a blocking call can return
FairSpec ==
  /\ Spec
  /\ WF_vars(GpuCopy)
  /\ WF_vars(GpuFinish)
  /\ WF_vars(VulkanRenderer_EndDraw)
  /\ WF_vars(EndDraw_WaitForFences)
  /\ WF_vars(EndDraw_Acquire)

TypeOK ==
  /\ pc \in {"idle", "wait_fence", "acquire", "crashed"}
  /\ tex \in [TexKinds -> HandleStates]
  /\ current_frame \in Slots
  /\ in_flight_fences \in [Slots -> BOOLEAN]
  /\ Len(gpu_queue) <= MAX_FRAMES_IN_FLIGHT
  /\ pixel_buffer \in {Null} \cup Contents
  /\ staging_buffer \in Contents
  /\ texture_content \in Contents
  /\ texture_image \in 0 .. MaxTextures
  /\ surface \in SurfaceStates
  /\ held_images \in 0 .. swapchain_image_count
  /\ tex_live \in [TexKinds -> 0 .. 1]
  /\ window_size \in WindowSizes
  /\ init_pc \in {"running", "ready", "failed", "destroyed"}
  /\ init_step \in 1 .. (Len(InitSteps) + 1)
  /\ vkh \in [ScalarHandles -> {"null", "live"}]
  /\ \A a \in ArrayHandles : Len(vka[a]) \in {0, ArrayLen(a)}
  /\ device_count \in 0 .. MaxGpus
  /\ physical_device \in 0 .. MaxGpus
  /\ shader_calls \subseteq ShaderCodes

\* ------------------------------------------------------------------ claims
\* steps of EndDraw, told apart by what they do to the program state
Submits == Len(gpu_queue') = Len(gpu_queue) + 1
Records == pc = "acquire" /\ pc' = "idle" /\ staging_buffer' = pixel_buffer
             /\ ~in_flight_fences'[current_frame]
Destroys == init_pc # "destroyed" /\ init_pc' = "destroyed"
AcquireOutOfDate == pc = "acquire" /\ pc' # "acquire"
                      /\ ResultFor(surface) = VK_ERROR_OUT_OF_DATE_KHR

\* C1: every fence wait of EndDraw is eventually satisfied, provided the GPU
\* completes whatever was submitted, whatever earlier calls returned
C1_FenceWaitEnds == (pc = "wait_fence") ~> (pc # "wait_fence")

\* C2: EndDraw resets and re-records the command buffer of a slot only when
\* the slot's fence was found signaled and no command buffer submitted for
\* the slot is still pending on the GPU
C2_RecordOnlyFreeSlot ==
  [][Records => in_flight_fences[current_frame] /\ ~Pending(current_frame)]_vars

C2_Witness ==
  /\ Len(gpu_queue) = 2
  /\ gpu_queue[1].slot = 1
  /\ gpu_queue[2].slot = 0

\* C3: the texture a frame's draw samples holds exactly the pixels the
\* producer wrote for that frame
C3_SampledIsWritten ==
  (gpu_queue # <<>> /\ gpu_queue[1].copied /\ gpu_queue[1].written \in Colors)
    => texture_content = gpu_queue[1].written

\* C4: after an acquire or a present reported out-of-date, the swapchain has
\* been recreated by the time the next image is acquired
C4_RecreatedAfterOutOfDate == pc = "acquire" => stale_gen # swapchain

\* C5: after a frame was dropped because the swapchain is out of date, some
\* later EndDraw presents a frame again
C5_PresentationResumes ==
  (last_end_draw = "dropped_out_of_date") ~> (last_end_draw = "presented")

\* C6: after OnResize the swapchain is recreated before the next EndDraw
\* acquires an image
C6_RecreatedAfterResize == pc = "acquire" => resize_gen # swapchain

\* C7: a present that returns suboptimal or out-of-date is not fatal: the
\* call returns with the slot advanced, and the swapchain is recreated
\* before the next acquire
C7_PresentNotOptimal ==
  /\ [][(Submits /\ ResultFor(surface') # VK_SUCCESS)
          => pc' = "idle" /\ current_frame' = NextFrame(current_frame)]_vars
  /\ [](pc = "acquire" => present_gen # swapchain)

\* C8: an EndDraw whose acquire reports out-of-date returns without touching
\* the frame protocol: no fence reset, nothing recorded, submitted or
\* presented, no image taken, same slot next time, its fence still signaled
C8_DroppedFrameNoEffect ==
  [][AcquireOutOfDate =>
       /\ pc' = "idle"
       /\ UNCHANGED <<in_flight_fences, gpu_queue, staging_buffer,
                      texture_content, current_frame, held_images, last_slot,
                      present_gen>>
       /\ in_flight_fences'[current_frame']]_vars

C8_Witness ==
  /\ pc = "idle"
  /\ last_end_draw = "dropped_out_of_date"
  /\ in_flight_fences[current_frame]

\* C9: the slot is always 0 or 1; it advances by one, modulo 2, exactly when
\* a frame is presented, so presented frames alternate between the slots
\* (Destroy zeroes it with the rest of vk);
\* a call never returns to the fence wait once it has passed it
C9_SlotsAlternate ==
  /\ current_frame \in Slots
  /\ [][/\ current_frame' \in Slots
        /\ Submits => /\ current_frame' = (current_frame + 1) % 2
                      /\ last_slot # current_frame
                      /\ last_slot' = current_frame
        /\ (~Submits /\ ~Destroys) => UNCHANGED <<current_frame, last_slot>>
        /\ pc = "acquire" => pc' # "wait_fence"]_vars

C9_Witness ==
  /\ last_end_draw = "presented"
  /\ last_slot = 1
  /\ current_frame = 0

Recreates == textures_created' # textures_created
ProducerWrites == pixel_buffer # Null /\ pixel_buffer' \in Colors
                    /\ pixel_buffer' # pixel_buffer
Uploads == in_flight_fences[current_frame] /\ ~in_flight_fences'[current_frame]

\* C12: BeginDraw destroys the objects of a previous texture only once the
\* device is idle: no submitted command buffer is still pending when a
\* recreation that finds a previous texture takes place
C12_IdleBeforeTextureDestroy ==
  [][(Recreates /\ HasTexture) => gpu_queue = <<>>]_vars

\* the second texture exists, and frames were rendered with the first
C12_Witness ==
  /\ textures_created = 2
  /\ texture_image = 2
  /\ size_changes = 2
  /\ last_slot # Null
  /\ texture_content = Garbage
  /\ gpu_queue = <<>>

C11_OneTextureDestroyedOnce ==
  /\ [](\A k \in TexKinds : tex_live[k] <= 1)
  /\ [][(Recreates /\ HasTexture)
          => \A k \in TexKinds : tex[k] # "dangling"]_vars

\* C14: Destroy has waited for the device to be idle before its first
\* destroy call: no submitted command buffer is pending when the objects go
C14_IdleBeforeDestroy ==
  [][Destroys => gpu_queue = <<>>]_vars

\* Destroy was called mid-stream, after frames had been submitted
C14_Witness ==
  /\ init_pc = "destroyed"
  /\ last_end_draw = "presented"
  /\ last_slot # Null
  /\ vkh["device"] = "null"

\* C15 as stated: whatever step Init failed at, every handle Destroy hands
\* to a destroy or free call names an object that was created and not yet
\* destroyed
C15_DestroyAfterFailureSafe ==
  [][Destroys => ~Destroy_Invalid]_vars

\* C16 as stated: Init returns failure exactly when a call of one of its
\* steps has failed
C16_FailureIffStepFailed ==
  /\ init_pc = "ready" => ~step_failed
  /\ init_pc = "failed" => step_failed

\* C17: when the name of the selected GPU contains "SwiftShader", Init
\* returns failure at the name check, with no logical device, swapchain or
\* pipeline created and no shader handed to the driver
C17_SwiftShaderRejected ==
  /\ [][(/\ init_pc = "running"
          /\ StepName = "swiftshader"
          /\ \E i \in 1 .. Len(device_name) : device_name[i] = "SwiftShader")
         => init_pc' = "failed" /\ vkh' = vkh]_vars
  /\ []((init_pc = "failed" /\ StepName = "swiftshader")
         => /\ vkh["device"] = "null"
            /\ vkh["swapchain"] = "null"
            /\ vkh["graphics_pipeline"] = "null"
            /\ shader_calls = {})

\* Init has failed on a GPU whose name has "SwiftShader" after another word
C17_Witness ==
  /\ init_pc = "failed"
  /\ StepName = "swiftshader"
  /\ device_name = <<"Adreno", "SwiftShader">>
  /\ vkh["surface"] = "live"
  /\ vkh["device"] = "null"

\* C18 as stated: Init fails for want of a queue family only when no
\* enumerated GPU has a family with both graphics and present support
C18_FailsOnlyIfNoGpuQualifies ==
  (init_pc = "failed" /\ StepName = "queue_family")
    => \A g \in 1 .. Len(devices) : \A i \in 1 .. Len(devices[g]) :
         ~(devices[g][i].graphics /\ devices[g][i].present)

\* C19: bytecode with a wrong leading word, shorter than 4 bytes or of a
\* size that is no multiple of 4 never reaches vkCreateShaderModule, and
\* with such a shader file Init fails in CreateGraphicsPipeline before the
\* pipeline layout and the pipeline are created
C19_InvalidShaderRejected ==
  /\ \A c \in shader_calls :
       c.word = SPIRV_MAGIC /\ c.size >= 4 /\ c.size % 4 = 0
  /\ \A c \in {vert_code, frag_code} :
       (c.loaded /\ (c.word # SPIRV_MAGIC \/ c.size < 4 \/ c.size % 4 # 0))
         => /\ init_pc \in {"failed", "destroyed"}
            /\ StepName = "graphics_pipeline"
            /\ vkh["pipeline_layout"] = "null"
            /\ vkh["graphics_pipeline"] = "null"

\* the vertex shader has the magic word but 6 bytes; only the fragment
\* shader went to the driver, and Init failed
C19_Witness ==
  /\ init_pc = "failed"
  /\ StepName = "graphics_pipeline"
  /\ vert_code = [loaded |-> TRUE, size |-> 6, word |-> SPIRV_MAGIC]
  /\ frag_code = ValidCode
  /\ shader_calls = {ValidCode}

\* C20 as stated: whenever a frame is acquired the swapchain extent equals
\* the current drawable size of the window
C20_ExtentIsWindowSize ==
  pc = "acquire" => swapchain_extent = window_size

\* C21: at every moment at most MAX_FRAMES_IN_FLIGHT submitted frames have
\* not completed on the GPU, and never two of the same slot
C21_AtMostTwoInFlight ==
  /\ Len(gpu_queue) <= MAX_FRAMES_IN_FLIGHT
  /\ \A i \in 1 .. Len(gpu_queue) : \A j \in 1 .. Len(gpu_queue) :
       gpu_queue[i].slot = gpu_queue[j].slot => i = j

\* EndDraw has returned twice and neither frame has begun to execute
C21_Witness ==
  /\ pc = "idle"
  /\ last_end_draw = "presented"
  /\ Len(gpu_queue) = MAX_FRAMES_IN_FLIGHT
  /\ \A i \in 1 .. Len(gpu_queue) : ~gpu_queue[i].copied
  /\ \A s \in Slots : ~in_flight_fences[s]

\* C22 as stated: EndDraw writes into the staging buffer only when no
\* submitted command buffer still has to read it, and the GPU executes an
\* upload into the texture only when no earlier frame is left to sample it
C22_StagingNotRaced ==
  /\ [][Uploads => \A i \in 1 .. Len(gpu_queue) : gpu_queue[i].copied]_vars
  /\ [][\A i \in 1 .. Len(gpu_queue) :
          (/\ Len(gpu_queue') = Len(gpu_queue)
           /\ ~gpu_queue[i].copied
           /\ gpu_queue'[i].copied) => i = 1]_vars

\* C23 as stated: whenever EndDraw has returned, a fence is unsignaled only
\* if a submitted command buffer that will signal it is pending
C23_ResetFenceHasSignaler ==
  pc = "idle" => \A s \in Slots : ~in_flight_fences[s] => Pending(s)

\* C25 as stated: whenever EndDraw has returned, no acquired image is left
\* that was not presented
C25_AcquiredIsPresented ==
  pc = "idle" => held_images = 0

\* C30 as stated: Destroy releases every device-owned object before the
\* device, the surface after the swapchain and before the instance, the
\* instance last, and hands each created object to its destroy call once
C30_ChildrenFirstOnce ==
  /\ \A h \in (TexKinds \cup ScalarHandles \cup ArrayHandles) :
       /\ Cardinality(DestroyPos(h)) = 1
       /\ h \notin {"device", "surface", "instance"}
            => \A i \in DestroyPos(h) : \A d \in DestroyPos("device") : i < d
  /\ \A i \in DestroyPos("swapchain") : \A j \in DestroyPos("surface") : i < j
  /\ DestroyPos("instance") = {Len(DestroyOrder)}
  /\ [](init_pc = "destroyed" => \A k \in TexKinds : tex_live[k] = 0)
  /\ [][Destroys => ~Destroy_Invalid]_vars

\* steps of the stepwise EndDraw, told apart by what they do
AcquiresImage == held_images' = held_images + 1
Memcpys == pc = "upload" /\ pc' = "record"
GpuUploads == Len(gpu_queue) > 0 /\ Len(gpu_queue') = Len(gpu_queue)
                /\ ~gpu_queue[1].copied /\ gpu_queue'[1].copied
GpuDraws == Len(gpu_queue') = Len(gpu_queue) - 1
Shows == Len(present_queue') = Len(present_queue) - 1

\* the order of the steps within one EndDraw call
EndDrawOrder == <<"wait_fence", "acquire", "reset_fence", "upload", "record",
                  "submit", "present", "advance", "idle">>

\* C24 as stated: the steps of one EndDraw call come in the order fence
\* wait, acquire, fence reset, upload, record, submit, present, slot
\* advance; the draw of a frame executes only once the image-available
\* semaphore stands for the image this very call acquired; and an image is
\* shown only once the command buffer that renders it has completed
C24_OrderAndSemaphores ==
  /\ [][(pc' # pc /\ pc # "idle" /\ pc' \notin {"idle", "crashed"})
          => \E i \in 1 .. (Len(EndDrawOrder) - 1) :
               pc = EndDrawOrder[i] /\ pc' = EndDrawOrder[i + 1]]_vars
  /\ [][/\ Uploads => pc = "reset_fence" /\ image_index # Null
        /\ Memcpys => ~in_flight_fences[current_frame]
        /\ Submits => pc = "submit" /\ ~in_flight_fences[current_frame]
        /\ Len(present_queue') > Len(present_queue)
             => pc = "present"
        /\ current_frame' # current_frame => pc = "advance"]_vars
  /\ [][GpuDraws => image_available_semaphores[gpu_queue[1].wait]
                      = gpu_queue[1].image]_vars
  /\ [][Shows => \A i \in 1 .. Len(gpu_queue) :
                   gpu_queue[i].image # present_queue[1].image]_vars

\* C26 as stated: the image-available semaphore given to an acquire that
\* hands out an image has no signal pending
C26_AcquireSemaphoreUnsignaled ==
  [][AcquiresImage
       => image_available_semaphores[AcquireSemaphore(current_frame)] = Null]_vars

\* C27 as stated: whenever EndDraw copies into the staging buffer or submits,
\* the texture objects are live objects created for the current size
C27_EndDrawUsesLiveTexture ==
  [][(Memcpys \/ Submits) => TextureReady]_vars

\* C28 as stated: a created texture is in SHADER_READ_ONLY_OPTIMAL whenever
\* no upload is executing, and the image is in the layout each barrier
\* declares as the old one when the barrier executes
C28_LayoutTracked ==
  /\ []((TextureReady /\ ~(gpu_queue # <<>> /\ gpu_queue[1].copied))
         => texture_layout = VK_IMAGE_LAYOUT_SHADER_READ_ONLY_OPTIMAL)
  /\ [][GpuUploads
          => texture_layout = VK_IMAGE_LAYOUT_SHADER_READ_ONLY_OPTIMAL]_vars
  /\ [][GpuDraws
          => /\ texture_layout = VK_IMAGE_LAYOUT_TRANSFER_DST_OPTIMAL
             /\ texture_layout' = VK_IMAGE_LAYOUT_SHADER_READ_ONLY_OPTIMAL]_vars

\* the last memcpy of EndDraw copied a new number of bytes
Copies == memcpy_size' # memcpy_size

\* C29 as stated: after BeginDraw(width, height) the pitch is width * 4, the
\* pixel buffer and the staging buffer hold exactly width * height * 4
\* bytes, and EndDraw copies exactly that many bytes, within both buffers
C29_SizesExact ==
  /\ [](texture_width > 0
         => /\ pitch = texture_width * 4
            /\ pixel_buffer_size % 4 = 0
            /\ pixel_buffer_size \div 4 = texture_width * texture_height
            /\ buffer_size = pixel_buffer_size)
  /\ [][Copies => /\ memcpy_size' % 4 = 0
                  /\ memcpy_size' \div 4 = texture_width * texture_height
                  /\ memcpy_size' <= pixel_buffer_size
                  /\ memcpy_size' <= buffer_size]_vars

\* C36 as stated: whenever CreateGraphicsPipeline has returned, on success
\* or on failure, every shader module it created has been destroyed
C36_ShadersDestroyed ==
  \A m \in DOMAIN shader_modules : shader_modules[m] # "live"

\* CreateSwapchain has filled in create_info
Requested == create_info # NoRequest

Min(a, b) == IF a <= b THEN a ELSE b

\* C33 as stated: the requested image count is minImageCount + 1 clamped to
\* maxImageCount, never above the maximum and never below the minimum
C33_ClampedToMaximum ==
  Requested
    => /\ create_info.minImageCount =
            Min(capabilities.minImageCount + 1, capabilities.maxImageCount)
       /\ create_info.minImageCount <= capabilities.maxImageCount
       /\ create_info.minImageCount >= capabilities.minImageCount

\* C33, amended: a maxImageCount of 0 states no maximum; then the count is
\* minImageCount + 1, and otherwise minImageCount + 1 clamped to maxImageCount;
\* it is never below the minimum
C33_ClampedUnlessUnlimited ==
  Requested
    => /\ capabilities.maxImageCount = 0
            => create_info.minImageCount = capabilities.minImageCount + 1
       /\ capabilities.maxImageCount > 0
            => /\ create_info.minImageCount =
                    Min(capabilities.minImageCount + 1,
                        capabilities.maxImageCount)
               /\ create_info.minImageCount <= capabilities.maxImageCount
       /\ create_info.minImageCount >= capabilities.minImageCount

C33_Witness ==
  /\ Requested
  /\ capabilities.maxImageCount = capabilities.minImageCount
  /\ create_info.minImageCount = capabilities.maxImageCount

\* the formats the specification calls BGRA or RGBA 8-bit
IsBgraOrRgba8(format) ==
  format \in {VK_FORMAT_B8G8R8A8_SRGB, "B8G8R8A8_UNORM", "R8G8B8A8_UNORM"}

\* the one entry the loop looks for
IsPreferred(f) ==
  /\ f.format = VK_FORMAT_B8G8R8A8_SRGB
  /\ f.colorSpace = VK_COLOR_SPACE_SRGB_NONLINEAR_KHR

\* the surface format create_info asks for
Chosen == [format |-> create_info.imageFormat,
           colorSpace |-> create_info.imageColorSpace]

\* C34 as stated: a BGRA or RGBA 8-bit format is chosen whenever the list
\* contains one, and the first format of the list otherwise
C34_PrefersBgraOrRgba8 ==
  Requested
    => IF \E i \in 1 .. Len(formats) : IsBgraOrRgba8(formats[i].format)
         THEN IsBgraOrRgba8(create_info.imageFormat)
         ELSE Chosen = formats[1]

\* C34, amended: B8G8R8A8_SRGB in the sRGB nonlinear colour space is chosen
\* whenever the list contains it, and the first format of the list otherwise
C34_PrefersBgraSrgb ==
  Requested
    => IF \E i \in 1 .. Len(formats) : IsPreferred(formats[i])
         THEN IsPreferred(Chosen)
         ELSE Chosen = formats[1]

C34_Witness ==
  /\ Requested
  /\ Len(formats) = 2
  /\ formats[1].format = VK_FORMAT_B8G8R8A8_SRGB
  /\ ~IsPreferred(formats[1])
  /\ IsPreferred(formats[2])
  /\ Chosen = formats[2]

\* every handle, array pointer, texture dimension and the slot counter of vk
\* is zero
VkZeroed ==
  /\ vkh = NoHandles
  /\ vka = NoArrays
  /\ tex = NoTexture
  /\ texture_width = 0
  /\ texture_height = 0
  /\ current_frame = 0
  /\ pixel_buffer = Null

DependsOn(h) ==
  CASE h = "instance" -> {}
    [] h = "surface" -> {"instance"}
    [] h = "device" -> {"instance"}
    [] h = "swapchain" -> {"device", "surface"}
    [] h = "pipeline_layout" -> {"device", "descriptor_set_layout"}
    [] h = "graphics_pipeline" -> {"device", "pipeline_layout", "render_pass"}
    [] OTHER -> {"device"}

\* every object that exists was created from objects that exist; a
\* framebuffer is created from the render pass and the image view of its image
BuiltOnLive ==
  /\ \A h \in ScalarHandles :
       vkh[h] = "live" => \A d \in DependsOn(h) : vkh[d] = "live"
  /\ \A a \in ArrayHandles : \A i \in 1 .. Len(vka[a]) :
       vka[a][i] = "live" => vkh["device"] = "live"
  /\ \A i \in 1 .. Len(vka["swapchain_image_views"]) :
       vka["swapchain_image_views"][i] = "live" => vkh["swapchain"] = "live"
  /\ \A i \in 1 .. Len(vka["framebuffers"]) :
       vka["framebuffers"][i] = "live"
         => /\ vkh["render_pass"] = "live"
            /\ vka["swapchain_image_views"][i] = "live"

\* C32 as stated: during Init every object is created only after the objects
\* it depends on exist, and when Init has returned true the streaming
\* texture and its staging buffer exist
C32_BuiltInOrder ==
  /\ init_pc \in {"running", "ready", "failed"} => BuiltOnLive
  /\ init_pc = "ready" => TextureReady

\* C35 as stated: when the draw of a command buffer signals the
\* render-finished semaphore of its slot, the present that waited on the
\* semaphore's previous signal has consumed that signal
C35_SignalAfterConsumed ==
  [][GpuDraws => ~render_finished_semaphores[gpu_queue[1].signal]]_vars

====
